---------------------------- MODULE Spec2Model ----------------------------
(***************************************************************************)
(* A model of the statistical significance engine of the A/B/N dashboard   *)
(* (src/utils/statistical_analysis.py): the two-proportion z-test, the     *)
(* Monte-Carlo P2BB, the chi-square omnibus test and the enumeration of    *)
(* all pairwise comparisons.                                               *)
(*                                                                         *)
(* Numbers.  Python floats are modelled as exact rationals <<num, den>>    *)
(* (den > 0, lowest terms); IEEE rounding is not modelled.  A division by  *)
(* zero of Python ints/floats raises ZeroDivisionError: it is the value    *)
(* ZeroDivisionError == <<0, 0>>, which every later operation propagates   *)
(* and which turns the result of the whole call into a raised exception.   *)
(* np.sqrt(v) is kept as its radicand (field sq), NaN for v < 0.  The      *)
(* z-score d / sqrt(v) is kept as its sign and its square.                 *)
(***************************************************************************)
EXTENDS Integers, Sequences, FiniteSets, TLC

VARIABLES
    variants,   \* the list of variant dicts {'name', 'n', 'x'} handed to the engine
    rng,        \* the state of numpy's global generator (np.random), shared by all calls
    op,         \* the engine function called last, and on which variants
    result,     \* what that call returned (or the exception it raised)
    locals      \* the local variables calculate_single_comparison ended with

vars == <<variants, rng, op, result, locals>>

-----------------------------------------------------------------------------
(* Bounds of the model *)

MaxVariants == 3      \* longest variant list
MaxN == 4             \* largest number of sessions of a variant of a pair
MaxListN == 2         \* largest number of sessions of a variant of a longer list
MaxRawN == 2          \* largest n of a variant whose counts are not validated
MaxRows == 2          \* most rows of a dataframe
MaxEventCount == 2    \* largest 'Event Count' of a row
MaxNameLen == 5       \* longest variant name made of every character
RngPeriod == 3        \* number of states (and of output levels) of the generator
n_simulations == 2    \* samples drawn per posterior (the code draws 10000)

Names == <<"Control", "Variant-A", "Variant-B", "Variant-C", "Variant-D">>

-----------------------------------------------------------------------------
(* Rational arithmetic standing for Python float arithmetic *)

Abs(i) == IF i < 0 THEN -i ELSE i

Max(i, j) == IF i >= j THEN i ELSE j

Min(i, j) == IF i <= j THEN i ELSE j

RECURSIVE GCD(_, _)
GCD(i, j) == IF j = 0 THEN i ELSE GCD(j, i % j)

ZeroDivisionError == <<0, 0>>

IsRaised(r) == r[2] = 0

Norm(num, den) ==
    IF den = 0 THEN ZeroDivisionError
    ELSE LET g == GCD(Abs(num), Abs(den))
             s == IF den < 0 THEN -1 ELSE 1
         IN  <<(s * num) \div g, (s * den) \div g>>

\* float(i) of a Python int
Float(i) == <<i, 1>>

Add(a, b) ==
    IF IsRaised(a) \/ IsRaised(b) THEN ZeroDivisionError
    ELSE Norm(a[1] * b[2] + b[1] * a[2], a[2] * b[2])

Neg(a) == IF IsRaised(a) THEN ZeroDivisionError ELSE <<-a[1], a[2]>>

Sub(a, b) == Add(a, Neg(b))

Mul(a, b) ==
    IF IsRaised(a) \/ IsRaised(b) THEN ZeroDivisionError
    ELSE LET l == Norm(a[1], b[2])
             r == Norm(b[1], a[2])
         IN  Norm(l[1] * r[1], l[2] * r[2])

\* Python's a / b: raises ZeroDivisionError when b is 0
TrueDiv(a, b) ==
    IF IsRaised(a) \/ IsRaised(b) \/ b[1] = 0 THEN ZeroDivisionError
    ELSE Mul(a, Norm(b[2], b[1]))

\* a/b < c/d for naturals a, c and positive b, d, without forming products
RECURSIVE FracLess(_, _, _, _)
FracLess(a, b, c, d) ==
    LET qa == a \div b
        qc == c \div d
        ra == a % b
        rc == c % d
    IN  IF qa # qc THEN qa < qc
        ELSE IF rc = 0 THEN FALSE
        ELSE IF ra = 0 THEN TRUE
        ELSE FracLess(d, rc, b, ra)

Sign(a) == IF a[1] > 0 THEN 1 ELSE IF a[1] < 0 THEN -1 ELSE 0

\* a < b on rationals (a raised operand never reaches a comparison: the call
\* has already ended, and its result is the exception)
Less(a, b) ==
    IF IsRaised(a) \/ IsRaised(b) THEN FALSE
    ELSE IF Sign(a) # Sign(b) THEN Sign(a) < Sign(b)
    ELSE IF Sign(a) = 0 THEN FALSE
    ELSE IF Sign(a) > 0 THEN FracLess(a[1], a[2], b[1], b[2])
    ELSE FracLess(-b[1], b[2], -a[1], a[2])

Greater(a, b) == Less(b, a)

-----------------------------------------------------------------------------
(* numpy and scipy functions the engine calls *)

\* np.sqrt(v): the root is kept as its radicand; NaN for a negative radicand.
\* `formula` is not part of the value: it names the expression of the source
\* that produced it.
np_sqrt(v, formula) ==
    IF IsRaised(v) THEN [nan |-> FALSE, sq |-> ZeroDivisionError, formula |-> formula]
    ELSE IF v[1] < 0 THEN [nan |-> TRUE, sq |-> Float(0), formula |-> formula]
    ELSE [nan |-> FALSE, sq |-> v, formula |-> formula]

\* the Python int 0 where the code assigns `se = 0`
SeZero == [nan |-> FALSE, sq |-> Float(0), formula |-> "zero"]

\* se > 0 (False for NaN)
SePositive(s) == ~s.nan /\ ~IsRaised(s.sq) /\ s.sq[1] > 0

\* d / s for a float d and the np.float64 s = sqrt(s.sq): sign and square of the
\* quotient; numpy yields nan or inf, not an exception, for s = 0 or s = nan
DivBySqrt(d, s) ==
    IF IsRaised(d) \/ IsRaised(s.sq)
        THEN [kind |-> "finite", sign |-> 0, sq |-> ZeroDivisionError]
    ELSE IF s.nan \/ (s.sq[1] = 0 /\ d[1] = 0)
        THEN [kind |-> "nan", sign |-> 0, sq |-> Float(0)]
    ELSE IF s.sq[1] = 0
        THEN [kind |-> "inf", sign |-> Sign(d), sq |-> Float(0)]
    ELSE [kind |-> "finite", sign |-> Sign(d), sq |-> TrueDiv(Mul(d, d), s.sq)]

\* the Python int 0 where the code assigns `z_score = 0`
ZZero == [kind |-> "finite", sign |-> 0, sq |-> Float(0)]

np_isnan(z) == z.kind = "nan"

np_isinf(z) == z.kind = "inf"

\* The levels on which p-values are kept: a p-value is 1 when the statistic is
\* 0, and otherwise is rounded down to the nearest of these levels, so that
\* p < 0.05 in the model exactly when p < 0.05 for the real statistic.
PGrid == << <<1, 2>>, <<1, 10>>, <<1, 20>>, <<1, 100>>, <<1, 1000>>, <<0, 1>> >>

\* Upper quantiles (times 10^6) of the chi-square distribution with dof degrees
\* of freedom at the tail probabilities 0.5, 0.1, 0.05, 0.01, 0.001
Chi2Quantiles(dof) ==
    CASE dof = 1 -> <<454936, 2705543, 3841459, 6634897, 10827566>>
      [] dof = 2 -> <<1386294, 4605170, 5991465, 9210340, 13815511>>
      [] dof = 3 -> <<2365974, 6251389, 7814728, 11344867, 16266236>>
      [] dof = 4 -> <<3356694, 7779440, 9487729, 13276704, 18466827>>

\* scipy.stats.chi2.sf(stat, dof) for a rational stat >= 0 and dof >= 1
chi2_sf(stat, dof) ==
    IF IsRaised(stat) THEN ZeroDivisionError
    ELSE IF stat[1] = 0 THEN Float(1)
    ELSE LET q == Chi2Quantiles(dof)
             k == Cardinality({i \in 1..Len(q) : Less(<<q[i], 1000000>>, stat)})
         IN  PGrid[k + 1]

\* 2 * stats.norm.sf(abs(z)): the square of a standard normal is chi-square
\* with one degree of freedom
two_sided_norm_sf(z) == chi2_sf(z.sq, 1)

\* The value the generator yields at position t of its stream
Uniform(t) == t % RngPeriod

\* One Beta(alpha, beta) variate from the uniform level u: a stand-in for the
\* sampler that lies in [0, 1), grows with u and alpha and falls with beta
BetaVariate(alpha, beta, u) == Norm(alpha - 1 + u, alpha + beta - 2 + RngPeriod)

\* np.random.beta(alpha, beta, size) drawn from the global generator in `state`:
\* ValueError for a shape <= 0, else `size` samples from consecutive positions
np_random_beta(alpha, beta, size, state) ==
    IF alpha <= 0 \/ beta <= 0
        THEN [raised |-> TRUE, samples |-> <<>>]
    ELSE [raised |-> FALSE,
          samples |-> [i \in 1..size |-> BetaVariate(alpha, beta, Uniform(state + i - 1))]]

\* the mean with ties counted for b
mean_greater_or_equal(b_posterior, a_posterior) ==
    Norm(Cardinality({i \in 1..Len(b_posterior) : ~Less(b_posterior[i], a_posterior[i])}),
         Len(b_posterior))

\* np.mean(b_posterior > a_posterior)
mean_greater(b_posterior, a_posterior) ==
    Norm(Cardinality({i \in 1..Len(b_posterior) : Greater(b_posterior[i], a_posterior[i])}),
         Len(b_posterior))

-----------------------------------------------------------------------------
(* calculate_single_comparison: the pair test used by the pairwise matrix *)

\* a_p, b_p: x / n if n > 0 else 0
variant_p(v) == IF v.n > 0 THEN TrueDiv(Float(v.x), Float(v.n)) ELSE Float(0)

pooled_p(a, b) ==
    IF a.n + b.n > 0 THEN TrueDiv(Float(a.x + b.x), Float(a.n + b.n)) ELSE Float(0)

\* the pooled standard deviation, without the factor of the sample sizes
pooled_se_of_one(pooled, a_n, b_n) ==
    np_sqrt(Mul(pooled, Sub(Float(1), pooled)), "pooled")

\* sqrt(pooled * (1 - pooled) * (1/a_n + 1/b_n))
pooled_se(pooled, a_n, b_n) ==
    np_sqrt(Mul(Mul(pooled, Sub(Float(1), pooled)),
                Add(TrueDiv(Float(1), Float(a_n)), TrueDiv(Float(1), Float(b_n)))),
            "pooled")

\* sqrt(a_p * (1 - a_p) / a_n + b_p * (1 - b_p) / b_n)
unpooled_se(a_p, a_n, b_p, b_n) ==
    np_sqrt(Add(TrueDiv(Mul(a_p, Sub(Float(1), a_p)), Float(a_n)),
                TrueDiv(Mul(b_p, Sub(Float(1), b_p)), Float(b_n))),
            "unpooled")

\* se with the variance of side a in place of the pooled variance
se_of_a(a, b) ==
    LET pooled == pooled_p(a, b)
    IN  IF a.n > 0 /\ b.n > 0 /\ Greater(pooled, Float(0)) /\ Less(pooled, Float(1))
            THEN pooled_se(variant_p(a), a.n, b.n)
        ELSE IF a.n > 0 /\ b.n > 0
            THEN unpooled_se(variant_p(a), a.n, variant_p(b), b.n)
        ELSE SeZero

\* se without the guards on n of the pooled case
se_unguarded(a, b) ==
    LET pooled == pooled_p(a, b)
    IN  IF Greater(pooled, Float(0)) /\ Less(pooled, Float(1))
            THEN pooled_se(pooled, a.n, b.n)
        ELSE IF a.n > 0 /\ b.n > 0
            THEN unpooled_se(variant_p(a), a.n, variant_p(b), b.n)
        ELSE SeZero

\* se with the unpooled case tried first
se_unpooled_first(a, b) ==
    IF a.n > 0 /\ b.n > 0
        THEN unpooled_se(variant_p(a), a.n, variant_p(b), b.n)
    ELSE SeZero

\* the conditional expression of lines 92-97: A if c1 else (B if c2 else 0)
se(a, b) ==
    LET pooled == pooled_p(a, b)
    IN  IF a.n > 0 /\ b.n > 0 /\ Greater(pooled, Float(0)) /\ Less(pooled, Float(1))
            THEN pooled_se(pooled, a.n, b.n)
        ELSE IF a.n > 0 /\ b.n > 0
            THEN unpooled_se(variant_p(a), a.n, variant_p(b), b.n)
        ELSE SeZero

\* z_score without the guard se > 0 of line 99
z_score_unguarded(a_p, b_p, s) == DivBySqrt(Sub(b_p, a_p), s)

\* lines 100-101 and 105-106
z_score(a_p, b_p, s) ==
    IF SePositive(s) THEN DivBySqrt(Sub(b_p, a_p), s) ELSE ZZero

\* lines 100-107
p_value(s, z) ==
    IF SePositive(s)
        THEN IF ~np_isnan(z) /\ ~np_isinf(z) THEN two_sided_norm_sf(z) ELSE Float(1)
    ELSE Float(1)

\* relative_lift as the difference of the rates, in percentage points
relative_lift_absolute(a_p, b_p) ==
    IF Greater(a_p, Float(0)) THEN Mul(Sub(b_p, a_p), Float(100)) ELSE Float(0)

\* relative_lift without the guard on the baseline rate
relative_lift_unguarded(a_p, b_p) ==
    Mul(TrueDiv(Sub(b_p, a_p), a_p), Float(100))

\* lines 110-113
relative_lift(a_p, b_p) ==
    IF Greater(a_p, Float(0))
        THEN Mul(TrueDiv(Sub(b_p, a_p), a_p), Float(100))
    ELSE Float(0)

\* the second shape parameter without its floor
posterior_beta_unfloored(v) == v.n - v.x + 1

\* the Beta shape parameters of lines 118-121
posterior_alpha(v) == Max(1, v.x + 1)

posterior_beta(v) == Max(1, v.n - v.x + 1)

\* the threshold of `p_value < 0.05`
Alpha == <<1, 20>>

\* The local variables of a call, as lines 86-113 leave them, from a_p, b_p,
\* pooled_p, se and z_score
LocalsRecord(a_p, b_p, pooled, s, z) ==
    [a_p |-> a_p, b_p |-> b_p, pooled_p |-> pooled, se |-> s,
     z_score |-> z, p_value |-> p_value(s, z),
     relative_lift |-> relative_lift(a_p, b_p)]

LocalsFromSe(a_p, b_p, pooled, s) ==
    LocalsRecord(a_p, b_p, pooled, s, z_score(a_p, b_p, s))

single_comparison_locals(a, b) ==
    LocalsFromSe(variant_p(a), variant_p(b), pooled_p(a, b), se(a, b))

\* Whether lines 86-113 raise ZeroDivisionError
LocalsRaised(l) ==
    \/ IsRaised(l.a_p) \/ IsRaised(l.b_p) \/ IsRaised(l.pooled_p)
    \/ IsRaised(l.se.sq) \/ IsRaised(l.z_score.sq)
    \/ IsRaised(l.p_value) \/ IsRaised(l.relative_lift)

\* No call made, or no local variable left
NoCall == [status |-> "none"]

\* lines 123-125: the two draws from the global generator and their comparison;
\* `state` is the generator after the draws that were made
p2bb(a_alpha, a_beta, b_alpha, b_beta, state) ==
    LET a_posterior == np_random_beta(a_alpha, a_beta, n_simulations, state)
        b_posterior == np_random_beta(b_alpha, b_beta, n_simulations, state + n_simulations)
    IN  IF a_posterior.raised
            THEN [raised |-> TRUE, state |-> state,
                  shapes |-> <<a_alpha, a_beta, b_alpha, b_beta>>,
                  a_posterior |-> <<>>, b_posterior |-> <<>>]
        ELSE IF b_posterior.raised
            THEN [raised |-> TRUE, state |-> (state + n_simulations) % RngPeriod,
                  shapes |-> <<a_alpha, a_beta, b_alpha, b_beta>>,
                  a_posterior |-> a_posterior.samples, b_posterior |-> <<>>]
        ELSE [raised |-> FALSE, state |-> (state + 2 * n_simulations) % RngPeriod,
              shapes |-> <<a_alpha, a_beta, b_alpha, b_beta>>,
              a_posterior |-> a_posterior.samples, b_posterior |-> b_posterior.samples,
              p2bb |-> mean_greater(b_posterior.samples, a_posterior.samples)]

\* The local variables lines 117-125 leave: the shape parameters handed to
\* np.random.beta (a_alpha, a_beta, b_alpha, b_beta) and the two sample arrays
BayesLocals(bayes) ==
    [shapes |-> bayes.shapes, a_posterior |-> bayes.a_posterior,
     b_posterior |-> bayes.b_posterior]

\* lines 127-137, given the locals l and the outcome bayes of lines 123-125:
\* the returned dict (or the exception), the generator the call leaves behind,
\* and its local variables
\* the returned dict with the p-value estimated from the posterior samples
single_comparison_return_sampled(a, b, is_control_comparison, state, l, bayes) ==
    IF LocalsRaised(l)
        THEN [status |-> "raised", error |-> "ZeroDivisionError", rng |-> state,
              locals |-> l]
    ELSE IF bayes.raised
        THEN [status |-> "raised", error |-> "ValueError", rng |-> bayes.state,
              locals |-> l @@ BayesLocals(bayes)]
    ELSE [status |-> "ok", rng |-> bayes.state, locals |-> l @@ BayesLocals(bayes),
          dict |-> [variant_a_name |-> a.name,
                    variant_b_name |-> b.name,
                    variant_a_p |-> l.a_p,
                    variant_b_p |-> l.b_p,
                    relative_lift |-> l.relative_lift,
                    p_value |-> Sub(Float(1), bayes.p2bb),
                    p2bb |-> bayes.p2bb,
                    significant |-> Less(Sub(Float(1), bayes.p2bb), Alpha),
                    is_control_comparison |-> is_control_comparison]]

\* the returned dict with significance at p_value <= 0.05
single_comparison_return_le(a, b, is_control_comparison, state, l, bayes) ==
    IF LocalsRaised(l)
        THEN [status |-> "raised", error |-> "ZeroDivisionError", rng |-> state,
              locals |-> l]
    ELSE IF bayes.raised
        THEN [status |-> "raised", error |-> "ValueError", rng |-> bayes.state,
              locals |-> l @@ BayesLocals(bayes)]
    ELSE [status |-> "ok", rng |-> bayes.state, locals |-> l @@ BayesLocals(bayes),
          dict |-> [variant_a_name |-> a.name,
                    variant_b_name |-> b.name,
                    variant_a_p |-> l.a_p,
                    variant_b_p |-> l.b_p,
                    relative_lift |-> l.relative_lift,
                    p_value |-> l.p_value,
                    p2bb |-> bayes.p2bb,
                    significant |-> ~Less(Alpha, l.p_value),
                    is_control_comparison |-> is_control_comparison]]

single_comparison_return(a, b, is_control_comparison, state, l, bayes) ==
    IF LocalsRaised(l)
        THEN [status |-> "raised", error |-> "ZeroDivisionError", rng |-> state,
              locals |-> l]
    ELSE IF bayes.raised
        THEN [status |-> "raised", error |-> "ValueError", rng |-> bayes.state,
              locals |-> l @@ BayesLocals(bayes)]
    ELSE [status |-> "ok", rng |-> bayes.state, locals |-> l @@ BayesLocals(bayes),
          dict |-> [variant_a_name |-> a.name,
                    variant_b_name |-> b.name,
                    variant_a_p |-> l.a_p,
                    variant_b_p |-> l.b_p,
                    relative_lift |-> l.relative_lift,
                    p_value |-> l.p_value,
                    p2bb |-> bayes.p2bb,
                    significant |-> Less(l.p_value, Alpha),
                    is_control_comparison |-> is_control_comparison]]

calculate_single_comparison(a, b, is_control_comparison, state) ==
    single_comparison_return(a, b, is_control_comparison, state,
                             single_comparison_locals(a, b),
                             p2bb(posterior_alpha(a), posterior_beta(a),
                                  posterior_alpha(b), posterior_beta(b), state))

-----------------------------------------------------------------------------
(* calculate_ab_test: the pair test used by the A/B cards *)

control_p(control_n, control_x) ==
    IF control_n > 0 THEN TrueDiv(Float(control_x), Float(control_n)) ELSE Float(0)

ab_pooled_p(control_n, control_x, treatment_n, treatment_x) ==
    IF control_n + treatment_n > 0
        THEN TrueDiv(Float(control_x + treatment_x), Float(control_n + treatment_n))
    ELSE Float(0)

\* the conditional expression of lines 34-39, given control_p, treatment_p and
\* pooled_p
ab_se(control_n, treatment_n, c_p, t_p, pooled) ==
    IF control_n > 0 /\ treatment_n > 0 /\ Greater(pooled, Float(0)) /\ Less(pooled, Float(1))
        THEN np_sqrt(Mul(Mul(pooled, Sub(Float(1), pooled)),
                         Add(TrueDiv(Float(1), Float(control_n)),
                             TrueDiv(Float(1), Float(treatment_n)))),
                     "pooled")
    ELSE IF control_n > 0 /\ treatment_n > 0
        THEN np_sqrt(Add(TrueDiv(Mul(c_p, Sub(Float(1), c_p)), Float(control_n)),
                         TrueDiv(Mul(t_p, Sub(Float(1), t_p)), Float(treatment_n))),
                     "unpooled")
    ELSE SeZero

\* line 42
ab_z_score(c_p, t_p, s) ==
    IF SePositive(s) THEN DivBySqrt(Sub(t_p, c_p), s) ELSE ZZero

\* line 46
ab_p_value(s, z) ==
    IF SePositive(s) /\ ~np_isnan(z) /\ ~np_isinf(z) THEN two_sided_norm_sf(z)
    ELSE Float(1)

\* the lift of line 49 in percentage points, without the division by control_p
ab_relative_lift_points(c_p, t_p) ==
    IF Greater(c_p, Float(0))
        THEN Mul(Sub(t_p, c_p), Float(100))
    ELSE Float(0)

\* line 49
ab_relative_lift(c_p, t_p) ==
    IF Greater(c_p, Float(0))
        THEN Mul(TrueDiv(Sub(t_p, c_p), c_p), Float(100))
    ELSE Float(0)

\* lines 63-71, given the locals and the outcome bayes of lines 59-61: the
\* returned dict (or the exception) and the generator the call leaves behind
ab_test_return(state, c_p, t_p, pooled, s, z, bayes) ==
    IF \/ IsRaised(c_p) \/ IsRaised(t_p) \/ IsRaised(pooled)
       \/ IsRaised(s.sq) \/ IsRaised(z.sq) \/ IsRaised(ab_p_value(s, z))
       \/ IsRaised(ab_relative_lift(c_p, t_p))
        THEN [status |-> "raised", error |-> "ZeroDivisionError", rng |-> state,
              locals |-> NoCall]
    ELSE IF bayes.raised
        THEN [status |-> "raised", error |-> "ValueError", rng |-> bayes.state,
              locals |-> BayesLocals(bayes)]
    ELSE [status |-> "ok", rng |-> bayes.state, locals |-> BayesLocals(bayes),
          dict |-> [control_p |-> c_p,
                    treatment_p |-> t_p,
                    se |-> s,
                    z_score |-> z,
                    p_value |-> ab_p_value(s, z),
                    relative_lift |-> ab_relative_lift(c_p, t_p),
                    p2bb |-> bayes.p2bb]]

ab_test_from_se(state, c_p, t_p, pooled, s, bayes) ==
    ab_test_return(state, c_p, t_p, pooled, s, ab_z_score(c_p, t_p, s), bayes)

ab_test_from_p(control_n, treatment_n, state, c_p, t_p, pooled, bayes) ==
    ab_test_from_se(state, c_p, t_p, pooled,
                    ab_se(control_n, treatment_n, c_p, t_p, pooled), bayes)

calculate_ab_test(control_n, control_x, treatment_n, treatment_x, state) ==
    ab_test_from_p(control_n, treatment_n, state,
                   control_p(control_n, control_x),
                   control_p(treatment_n, treatment_x),
                   ab_pooled_p(control_n, control_x, treatment_n, treatment_x),
                   p2bb(Max(1, control_x + 1), Max(1, control_n - control_x + 1),
                        Max(1, treatment_x + 1), Max(1, treatment_n - treatment_x + 1),
                        state))

-----------------------------------------------------------------------------
(* calculate_chi_square_test: the omnibus test *)

RECURSIVE SumSeq(_)
SumSeq(q) == IF q = <<>> THEN 0 ELSE Head(q) + SumSeq(Tail(q))

RECURSIVE SumRat(_)
SumRat(q) == IF q = <<>> THEN Float(0) ELSE Add(Head(q), SumRat(Tail(q)))

\* the successes floored at 0 but not capped at n
conversions_uncapped(vs) ==
    [k \in 1..Len(vs) |-> Max(0, vs[k].x)]

\* the loop of lines 155-161: the clamped successes of each variant
conversions(vs) ==
    [k \in 1..Len(vs) |-> Min(Max(0, vs[k].x), Max(0, vs[k].n))]

\* the loop of lines 155-161: the failures of each variant, floored at 0
non_conversions(vs) ==
    [k \in 1..Len(vs) |-> Max(0, Max(0, vs[k].n) - Min(Max(0, vs[k].x), Max(0, vs[k].n)))]

\* scipy.stats.contingency.expected_freq of the 2 x K table <<row1, row2>>
expected_freq(observed) ==
    LET total == SumSeq(observed[1]) + SumSeq(observed[2])
    IN  [r \in 1..2 |->
            [k \in 1..Len(observed[1]) |->
                Norm(SumSeq(observed[r]) * (observed[1][k] + observed[2][k]), total)]]

\* Yates' correction as (|O - E| - 0.5)^2 whatever the size of |O - E|
yates_textbook(obs, exp) ==
    LET diff == Sub(exp, Float(obs))
    IN  Add(exp, Sub(<<Abs(diff[1]), diff[2]>>, <<1, 2>>))

\* Yates' continuity correction: each observed cell moves towards its expected
\* value by min(0.5, |expected - observed|)
yates(obs, exp) ==
    LET diff == Sub(exp, Float(obs))
        mag == IF Less(<<1, 2>>, <<Abs(diff[1]), diff[2]>>) THEN <<1, 2>>
               ELSE <<Abs(diff[1]), diff[2]>>
    IN  Add(Float(obs), Mul(mag, Float(Sign(diff))))

\* (o - e)^2 / e
Deviation(o, e) == TrueDiv(Mul(Sub(o, e), Sub(o, e)), e)

\* The Pearson statistic of the 2 x K table against its expected frequencies,
\* with Yates' correction when there is one degree of freedom
pearson_statistic(observed, expected, dof) ==
    SumRat([c \in 1..(2 * Len(observed[1])) |->
        Deviation(IF dof = 1
                      THEN yates(observed[((c - 1) \div Len(observed[1])) + 1]
                                         [((c - 1) % Len(observed[1])) + 1],
                                 expected[((c - 1) \div Len(observed[1])) + 1]
                                         [((c - 1) % Len(observed[1])) + 1])
                  ELSE Float(observed[((c - 1) \div Len(observed[1])) + 1]
                                     [((c - 1) % Len(observed[1])) + 1]),
                  expected[((c - 1) \div Len(observed[1])) + 1]
                          [((c - 1) % Len(observed[1])) + 1])])

Chi2Result(chi2, dof) ==
    [status |-> "ok", chi2 |-> chi2, p_value |-> chi2_sf(chi2, dof), dof |-> dof]

\* chi2_contingency once the expected frequencies are computed
chi2_from_expected(observed, expected, K) ==
    IF \E r \in 1..2, k \in 1..K : expected[r][k][1] = 0
        THEN [status |-> "raised", error |-> "ValueError"]
    ELSE IF K - 1 = 0
        THEN [status |-> "ok", chi2 |-> Float(0), p_value |-> Float(1), dof |-> 0]
    ELSE Chi2Result(pearson_statistic(observed, expected, K - 1), K - 1)

\* scipy.stats.chi2_contingency(observed) (correction=True) on a 2 x K table:
\* ValueError for a negative cell, for an empty table and for an expected
\* frequency of 0
chi2_contingency(observed) ==
    IF \E r \in 1..2, k \in 1..Len(observed[1]) : observed[r][k] < 0
        THEN [status |-> "raised", error |-> "ValueError"]
    ELSE IF Len(observed[1]) = 0
        THEN [status |-> "raised", error |-> "ValueError"]
    ELSE chi2_from_expected(observed, expected_freq(observed), Len(observed[1]))

\* the default result of lines 166-171 and 178-183; `tested` and `guard` are
\* not keys of the dict: they record whether chi2_contingency was called and
\* which check returned the default
chi_square_default ==
    [status |-> "ok", chi2 |-> Float(0), p_value |-> Float(1), dof |-> 0,
     significant |-> FALSE, tested |-> FALSE, guard |-> "row_sum"]

\* lines 186-193: the dict built from what chi2_contingency returned, or the
\* exception it raised
chi_square_return(test) ==
    IF test.status = "raised"
        THEN [status |-> "raised", error |-> test.error, tested |-> TRUE,
              guard |-> "none"]
    ELSE [status |-> "ok", chi2 |-> test.chi2, p_value |-> test.p_value,
          dof |-> test.dof, significant |-> Less(test.p_value, Alpha),
          tested |-> TRUE, guard |-> "none"]

\* the row-sum check on the row of conversions only
chi_square_of_table_first_row(contingency_table) ==
    IF SumSeq(contingency_table[1]) = 0
        THEN chi_square_default
    ELSE IF \E r \in 1..2, k \in 1..Len(contingency_table[1]) : contingency_table[r][k] < 0
        THEN [chi_square_default EXCEPT !.guard = "negative"]
    ELSE chi_square_return(chi2_contingency(contingency_table))

\* lines 163-193 on the two rows of the table
chi_square_of_table(contingency_table) ==
    IF SumSeq(contingency_table[1]) = 0 \/ SumSeq(contingency_table[2]) = 0
        THEN chi_square_default
    ELSE IF \E r \in 1..2, k \in 1..Len(contingency_table[1]) : contingency_table[r][k] < 0
        THEN [chi_square_default EXCEPT !.guard = "negative"]
    ELSE chi_square_return(chi2_contingency(contingency_table))

calculate_chi_square_test(vs) ==
    chi_square_of_table(<<conversions(vs), non_conversions(vs)>>)

-----------------------------------------------------------------------------
(* calculate_all_pairwise_comparisons *)

\* The nested loops of lines 209-215 from (i, j) on (0-based, as in the code):
\* the comparisons appended so far are in acc, the generator is in state
RECURSIVE pairwise_loop(_, _, _, _, _)
RECURSIVE pairwise_append(_, _, _, _, _)

\* pairwise_loop with the inner loop as range(i, len(variants))
pairwise_loop_from_i(vs, i, j, acc, state) ==
    IF i >= Len(vs) THEN [status |-> "ok", all_comparisons |-> acc, rng |-> state]
    ELSE IF j >= Len(vs) THEN pairwise_loop(vs, i + 1, i + 1, acc, state)
    ELSE pairwise_append(vs, i, j, acc,
                         calculate_single_comparison(vs[i + 1], vs[j + 1], i = 0, state))

\* pairwise_loop with the tag taken from the second variant of the pair
pairwise_loop_tag_j(vs, i, j, acc, state) ==
    IF i >= Len(vs) THEN [status |-> "ok", all_comparisons |-> acc, rng |-> state]
    ELSE IF j >= Len(vs) THEN pairwise_loop(vs, i + 1, i + 2, acc, state)
    ELSE pairwise_append(vs, i, j, acc,
                         calculate_single_comparison(vs[i + 1], vs[j + 1], j = 1, state))

\* pairwise_loop with the pair handed over as (variants[j], variants[i])
pairwise_loop_swapped(vs, i, j, acc, state) ==
    IF i >= Len(vs) THEN [status |-> "ok", all_comparisons |-> acc, rng |-> state]
    ELSE IF j >= Len(vs) THEN pairwise_loop(vs, i + 1, i + 2, acc, state)
    ELSE pairwise_append(vs, i, j, acc,
                         calculate_single_comparison(vs[j + 1], vs[i + 1], i = 0, state))

pairwise_loop(vs, i, j, acc, state) ==
    IF i >= Len(vs) THEN [status |-> "ok", all_comparisons |-> acc, rng |-> state]
    ELSE IF j >= Len(vs) THEN pairwise_loop(vs, i + 1, i + 2, acc, state)
    ELSE pairwise_append(vs, i, j, acc,
                         calculate_single_comparison(vs[i + 1], vs[j + 1], i = 0, state))

\* line 215: the comparison is appended (an exception ends the loop)
pairwise_append(vs, i, j, acc, comparison) ==
    IF comparison.status = "raised"
        THEN [status |-> "raised", error |-> comparison.error, rng |-> comparison.rng]
    ELSE pairwise_loop(vs, i, j + 1, Append(acc, comparison.dict), comparison.rng)

calculate_all_pairwise_comparisons(vs, state) == pairwise_loop(vs, 0, 1, <<>>, state)

-----------------------------------------------------------------------------
(* create_comparison_matrix, lines 614-676: the z_values of the heatmap *)

\* lines 663-672: 1 (green, winner), -1 (red, loser) or 0.5 (grey, neutral)
matrix_cell(comparison) ==
    IF comparison.significant
        THEN IF Greater(comparison.relative_lift, Float(0)) THEN Float(1)
             ELSE Float(-1)
    ELSE <<1, 2>>

RECURSIVE matrix_rows(_, _, _, _, _, _)
RECURSIVE matrix_append(_, _, _, _, _, _)

\* the loops of lines 633-676 at row i and column j, with the rows z_values
\* built so far and the row z_row under construction
matrix_rows(vs, i, j, z_values, z_row, state) ==
    IF i >= Len(vs) THEN [status |-> "ok", z_values |-> z_values, rng |-> state]
    ELSE IF j >= Len(vs)
        THEN matrix_rows(vs, i + 1, 0, Append(z_values, z_row), <<>>, state)
    ELSE IF i = j
        THEN matrix_rows(vs, i, j + 1, z_values, Append(z_row, Float(0)), state)
    ELSE matrix_append(vs, i, j, z_values, z_row,
                       calculate_single_comparison(vs[i + 1], vs[j + 1], FALSE, state))

\* lines 649-672: the cell of the comparison (an exception ends the function)
matrix_append(vs, i, j, z_values, z_row, comparison) ==
    IF comparison.status = "raised"
        THEN [status |-> "raised", error |-> comparison.error, rng |-> comparison.rng]
    ELSE matrix_rows(vs, i, j + 1, z_values,
                     Append(z_row, matrix_cell(comparison.dict)), comparison.rng)

create_comparison_matrix(vs, state) == matrix_rows(vs, 0, 0, <<>>, <<>>, state)

-----------------------------------------------------------------------------
(* prepare_variants_from_dataframe: from the rows of the ETL to variant dicts *)

\* A dataframe is its set of columns, as has_counts ('Variant' and 'Event Count'
\* are columns) and has_stage ('Funnel Stage' is a column), and its rows in
\* order; None is the missing stage argument
None == "None"

\* df['Variant'].unique(): the values of the column in order of first appearance
RECURSIVE unique(_, _)
unique(rows, seen) ==
    IF rows = <<>> THEN <<>>
    ELSE IF Head(rows).Variant \in seen THEN unique(Tail(rows), seen)
    ELSE <<Head(rows).Variant>> \o unique(Tail(rows), seen \cup {Head(rows).Variant})

\* ['Event Count'].sum() of the rows
RECURSIVE EventCountSum(_)
EventCountSum(rows) ==
    IF rows = <<>> THEN 0 ELSE Head(rows).EventCount + EventCountSum(Tail(rows))

\* The keys of groupby('Variant'): the values of the column in ascending order
\* (sort=True is the default of groupby); Names lists the names in that order
groupby_keys(rows) ==
    SelectSeq(Names, LAMBDA name : \E i \in 1..Len(rows) : rows[i].Variant = name)

RowsOfVariant(rows, variant) == SelectSeq(rows, LAMBDA r : r.Variant = variant)

RowsOfStage(rows, stage) == SelectSeq(rows, LAMBDA r : r.FunnelStage = stage)

\* groupby('Variant')['Event Count'].agg(['sum', 'count']) and the loop over
\* its rows: n is the number of records of the variant, x the sum of its events
aggregate(rows) ==
    [k \in 1..Len(groupby_keys(rows)) |->
        [name |-> groupby_keys(rows)[k],
         n |-> Len(RowsOfVariant(rows, groupby_keys(rows)[k])),
         x |-> EventCountSum(RowsOfVariant(rows, groupby_keys(rows)[k]))]]

\* lines 292-313: one dict per variant with events in the initial stage
funnel_variant(rows, variant, initial_stage, final_stage) ==
    [name |-> variant,
     n |-> EventCountSum(RowsOfStage(RowsOfVariant(rows, variant), initial_stage)),
     x |-> EventCountSum(RowsOfStage(RowsOfVariant(rows, variant), final_stage))]

RECURSIVE funnel(_, _, _, _)
funnel(rows, all_variants, initial_stage, final_stage) ==
    IF all_variants = <<>> THEN <<>>
    ELSE (IF funnel_variant(rows, Head(all_variants), initial_stage, final_stage).n > 0
              THEN <<funnel_variant(rows, Head(all_variants), initial_stage, final_stage)>>
          ELSE <<>>)
         \o funnel(rows, Tail(all_variants), initial_stage, final_stage)

prepare_variants_from_dataframe(df, initial_stage, final_stage) ==
    IF ~df.has_counts THEN <<>>
    ELSE IF ~df.has_stage THEN aggregate(df.rows)
    ELSE IF initial_stage # None /\ final_stage # None
        THEN funnel(df.rows, unique(df.rows, {}), initial_stage, final_stage)
    ELSE IF initial_stage # None
        THEN aggregate(RowsOfStage(df.rows, initial_stage))
    ELSE IF final_stage # None
        THEN aggregate(RowsOfStage(df.rows, final_stage))
    ELSE aggregate(df.rows)

\* The parameters in the signature of prepare_variants_from_dataframe, line 257
prepare_variants_parameters == {"df", "initial_stage", "final_stage"}

\* prepare_variants_from_dataframe(df, keyword=value): Python binds the keyword
\* to the parameter of that name and raises TypeError, before the body runs,
\* when the function has no such parameter
call_prepare_variants(df, keyword, value) ==
    IF keyword \notin prepare_variants_parameters
        THEN [status |-> "raised", error |-> "TypeError"]
    ELSE [status |-> "ok",
          list |-> prepare_variants_from_dataframe(
                       df,
                       IF keyword = "initial_stage" THEN value ELSE None,
                       IF keyword = "final_stage" THEN value ELSE None)]

\* df['Funnel Stage'].unique(): the stages in order of first appearance
RECURSIVE unique_stages(_, _)
unique_stages(rows, seen) ==
    IF rows = <<>> THEN <<>>
    ELSE IF Head(rows).FunnelStage \in seen THEN unique_stages(Tail(rows), seen)
    ELSE <<Head(rows).FunnelStage>>
             \o unique_stages(Tail(rows), seen \cup {Head(rows).FunnelStage})

RECURSIVE by_stage_loop(_, _, _)
RECURSIVE by_stage_store(_, _, _, _)

\* lines 365-370: the loop over funnel_stages with the dict built so far
by_stage_loop(df, funnel_stages, dict) ==
    IF funnel_stages = <<>> THEN [status |-> "ok", dict |-> dict]
    ELSE by_stage_store(df, funnel_stages, dict,
                        call_prepare_variants(df, "funnel_stage", Head(funnel_stages)))

\* lines 367-368: a non-empty list is stored under its stage (an exception
\* ends the function)
by_stage_store(df, funnel_stages, dict, call) ==
    IF call.status = "raised" THEN call
    ELSE IF call.list # <<>>
        THEN by_stage_loop(df, Tail(funnel_stages),
                           (Head(funnel_stages) :> call.list) @@ dict)
    ELSE by_stage_loop(df, Tail(funnel_stages), dict)

\* lines 359-370; the empty dict is the function of empty domain
prepare_variants_by_funnel_stage(df) ==
    IF ~df.has_stage THEN [status |-> "ok", dict |-> <<>>]
    ELSE by_stage_loop(df, unique_stages(df.rows, {}), <<>>)

-----------------------------------------------------------------------------
(* get_smart_label: a Python str is the sequence of its characters *)

Letters == {"a", "b", "C", "o", "n", "t", "r", "l", "V", "i", "T", "e", "m", "w", "u"}

Digits == {"1", "2"}

isalpha(c) == c \in Letters

isdigit(c) == c \in Digits

\* s[:k]
Prefix(s, k) == SubSeq(s, 1, Min(k, Len(s)))

\* name.split('-')[-1]: what follows the last hyphen
RECURSIVE last_part(_)
last_part(name) ==
    IF name = <<>> THEN <<>>
    ELSE IF name[Len(name)] = "-" THEN <<>>
    ELSE last_part(SubSeq(name, 1, Len(name) - 1)) \o <<name[Len(name)]>>

\* name.replace('-', ' ').replace('_', ' ')
replace_separators(name) ==
    [i \in 1..Len(name) |-> IF name[i] \in {"-", "_"} THEN " " ELSE name[i]]

\* str.split(): the maximal runs of characters that are not whitespace; word
\* is the run being read
RECURSIVE split(_, _)
split(text, word) ==
    IF text = <<>> THEN (IF word = <<>> THEN <<>> ELSE <<word>>)
    ELSE IF Head(text) = " "
        THEN (IF word = <<>> THEN <<>> ELSE <<word>>) \o split(Tail(text), <<>>)
    ELSE split(Tail(text), word \o <<Head(text)>>)

\* ''.join([c for c in text if c.isalpha()])
join_letters(text) == SelectSeq(text, isalpha)

\* ''.join([c for c in text if c.isdigit()])
join_digits(text) == SelectSeq(text, isdigit)

\* the first letter of each word, wherever it stands in the word
RECURSIVE initials_first_letter(_)
initials_first_letter(words) ==
    IF words = <<>> THEN <<>>
    ELSE Prefix(join_letters(Head(words)), 1) \o initials_first_letter(Tail(words))

\* ''.join([word[0] for word in words if word and word[0].isalpha()])
RECURSIVE initials(_)
initials(words) ==
    IF words = <<>> THEN <<>>
    ELSE (IF Head(words) # <<>> /\ isalpha(Head(words)[1]) THEN <<Head(words)[1]>> ELSE <<>>)
         \o initials(Tail(words))

\* lines 246-249 with the result left at its full length
single_word_label_untruncated(word) ==
    Prefix(join_letters(word), 3) \o join_digits(word)

\* lines 246-249: one word
single_word_label(word) ==
    Prefix(Prefix(join_letters(word), 3) \o join_digits(word), 4)

\* lines 252-254: several words, or none
initials_label(words, name) ==
    Prefix(initials(words) \o join_digits(name), 4)

\* lines 242-254
words_label(words, name) ==
    IF Len(words) = 1 THEN single_word_label(words[1])
    ELSE initials_label(words, name)

\* get_smart_label with names of fewer than 4 characters passed through
get_smart_label_below_4(name) ==
    IF Len(name) < 4 THEN name
    ELSE IF (\E i \in 1..Len(name) : name[i] = "-") /\ last_part(name) # <<>>
        THEN Prefix(last_part(name), 4)
    ELSE words_label(split(replace_separators(name), <<>>), name)

\* get_smart_label with the hyphen rule taken whenever the name has a hyphen
get_smart_label_any_segment(name) ==
    IF Len(name) <= 4 THEN name
    ELSE IF \E i \in 1..Len(name) : name[i] = "-"
        THEN Prefix(last_part(name), 4)
    ELSE words_label(split(replace_separators(name), <<>>), name)

get_smart_label(name) ==
    IF Len(name) <= 4 THEN name
    ELSE IF (\E i \in 1..Len(name) : name[i] = "-") /\ last_part(name) # <<>>
        THEN Prefix(last_part(name), 4)
    ELSE words_label(split(replace_separators(name), <<>>), name)

-----------------------------------------------------------------------------
(* The engine as a state machine.  A request holds the variant list of one   *)
(* experiment, and the dashboard calls the engine's functions on it, in any  *)
(* order and any number of times.                                            *)

\* The (n, x) of a well-formed variant of a pair: 0 <= x <= n <= MaxN
Counts == {c \in [n : 0..MaxN, x : 0..MaxN] : c.x <= c.n}

\* The (n, x) of a well-formed variant of a longer list: no session, one
\* session or MaxListN sessions
ListCounts == {c \in [n : {0, 1, MaxListN}, x : 0..MaxListN] : c.x <= c.n}

\* The variant list that gives the k-th name to the k-th (n, x) of f
Named(f) == [k \in 1..Len(f) |-> [name |-> Names[k], n |-> f[k].n, x |-> f[k].x]]

\* The reference experiment: 100 conversions of 1000 sessions against 200 of 1000
ReferencePair ==
    <<[name |-> Names[1], n |-> 1000, x |-> 100], [name |-> Names[2], n |-> 1000, x |-> 200]>>

\* Two variants, the control first
PairLists == {Named(f) : f \in [1..2 -> Counts]} \cup {ReferencePair}

\* Variant lists of every length up to MaxVariants, with pairwise distinct names
VariantLists == UNION {{Named(f) : f \in [1..len -> ListCounts]} : len \in 0..MaxVariants}

\* calculate_single_comparison(variants[i], variants[j]), as create_comparison_matrix
\* and the summary cards call it for any two variants
PairReturns(i, j, r) ==
    /\ op' = [name |-> "calculate_single_comparison", a |-> i, b |-> j]
    /\ result' = IF r.status = "ok" THEN [status |-> "ok", dict |-> r.dict]
                 ELSE [status |-> "raised", error |-> r.error]
    /\ locals' = r.locals
    /\ rng' = r.rng
    /\ UNCHANGED variants

EvaluatePair(i, j) ==
    /\ i # j
    /\ PairReturns(i, j, calculate_single_comparison(variants[i], variants[j], FALSE, rng))

\* calculate_ab_test(control, treatment), as run_ui calls it for variants i < j
AbTestReturns(i, j, r) ==
    /\ op' = [name |-> "calculate_ab_test", a |-> i, b |-> j]
    /\ result' = IF r.status = "ok" THEN [status |-> "ok", dict |-> r.dict]
                 ELSE [status |-> "raised", error |-> r.error]
    /\ locals' = r.locals
    /\ rng' = r.rng
    /\ UNCHANGED variants

CalculateAbTest(i, j) ==
    /\ i < j
    /\ AbTestReturns(i, j, calculate_ab_test(variants[i].n, variants[i].x,
                                             variants[j].n, variants[j].x, rng))

\* calculate_chi_square_test(variants)
EvaluateOmnibus ==
    /\ op' = [name |-> "calculate_chi_square_test"]
    /\ result' = calculate_chi_square_test(variants)
    /\ locals' = [contingency_table |-> <<conversions(variants), non_conversions(variants)>>]
    /\ UNCHANGED <<variants, rng>>

\* calculate_all_pairwise_comparisons(variants)
AllPairsReturns(r) ==
    /\ op' = [name |-> "calculate_all_pairwise_comparisons"]
    /\ result' = IF r.status = "ok"
                     THEN [status |-> "ok", all_comparisons |-> r.all_comparisons]
                 ELSE [status |-> "raised", error |-> r.error]
    /\ locals' = NoCall
    /\ rng' = r.rng
    /\ UNCHANGED variants

EvaluateAllPairs == AllPairsReturns(calculate_all_pairwise_comparisons(variants, rng))

\* create_comparison_matrix(metric_name, variants)
MatrixReturns(r) ==
    /\ op' = [name |-> "create_comparison_matrix"]
    /\ result' = IF r.status = "ok" THEN [status |-> "ok", z_values |-> r.z_values]
                 ELSE [status |-> "raised", error |-> r.error]
    /\ locals' = NoCall
    /\ rng' = r.rng
    /\ UNCHANGED variants

CreateComparisonMatrix == MatrixReturns(create_comparison_matrix(variants, rng))

\* The pair functions on every pair of well-formed variants
InitPair ==
    /\ variants \in PairLists
    /\ rng \in 0..(RngPeriod - 1)
    /\ op = [name |-> "none"]
    /\ result = NoCall
    /\ locals = NoCall

NextPair ==
    \/ \E i, j \in 1..Len(variants) : EvaluatePair(i, j)
    \/ \E i, j \in 1..Len(variants) : CalculateAbTest(i, j)
    \/ CreateComparisonMatrix

SpecPair == InitPair /\ [][NextPair]_vars

\* The (n, x) of a variant nobody validated: negative counts and x > n included
RawCounts == [n : (-1)..MaxRawN, x : (-1)..(MaxRawN + 1)]

RawLists == {Named(f) : f \in [1..2 -> RawCounts]}

\* The pair functions and the omnibus test on two variants of any counts
InitRaw ==
    /\ variants \in RawLists
    /\ rng \in 0..(RngPeriod - 1)
    /\ op = [name |-> "none"]
    /\ result = NoCall
    /\ locals = NoCall

NextRaw ==
    \/ \E i, j \in 1..Len(variants) : EvaluatePair(i, j)
    \/ \E i, j \in 1..Len(variants) : CalculateAbTest(i, j)
    \/ EvaluateOmnibus

SpecRaw == InitRaw /\ [][NextRaw]_vars

\* The dataframes of the ETL: rows of two variants in two funnel stages
Stages == {"baggage_dom_loaded", "revenue_amount"}

Rows == [Variant : {Names[1], Names[2]}, FunnelStage : Stages, EventCount : 0..MaxEventCount]

DataFrames ==
    [has_counts : BOOLEAN, has_stage : BOOLEAN,
     rows : UNION {[1..len -> Rows] : len \in 0..MaxRows}]

\* run_ui builds the variant list from the dataframe of the ETL, once per
\* analysis
PrepareVariants(df, initial_stage, final_stage) ==
    /\ op' = [name |-> "prepare_variants_from_dataframe", df |-> df,
              initial_stage |-> initial_stage, final_stage |-> final_stage]
    /\ variants' = prepare_variants_from_dataframe(df, initial_stage, final_stage)
    /\ result' = [status |-> "ok"]
    /\ locals' = NoCall
    /\ UNCHANGED rng

\* prepare_variants_by_funnel_stage(df) on the dataframe of the ETL
PrepareVariantsByFunnelStage(df) ==
    /\ op' = [name |-> "prepare_variants_by_funnel_stage", df |-> df]
    /\ result' = prepare_variants_by_funnel_stage(df)
    /\ locals' = NoCall
    /\ UNCHANGED <<variants, rng>>

InitPrepare ==
    /\ variants = <<>>
    /\ rng = 0
    /\ op = [name |-> "none"]
    /\ result = NoCall
    /\ locals = NoCall

NextPrepare ==
    /\ op.name = "none"
    /\ \/ \E df \in DataFrames, initial_stage, final_stage \in Stages \cup {None} :
              PrepareVariants(df, initial_stage, final_stage)
       \/ \E df \in DataFrames : PrepareVariantsByFunnelStage(df)

SpecPrepare == InitPrepare /\ [][NextPrepare]_vars

\* The characters variant names are made of: letters, a digit, the three
\* separators and another symbol
Chars == {"a", "b", "1", "-", "_", " ", "#"}

\* Every name of up to MaxNameLen characters, and some longer ones
NameStrings ==
    UNION {[1..len -> Chars] : len \in 0..MaxNameLen}
    \cup {<<"C", "o", "n", "t", "r", "o", "l">>,
          <<"V", "a", "r", "i", "a", "n", "t", "-", "a">>,
          <<"V", "a", "r", "i", "a", "n", "t", "-", "T", "r", "e", "a", "t", "m", "e", "n", "t">>,
          <<"T", "r", "e", "a", "t", "m", "e", "n", "t", "_", "1", "2">>,
          <<"n", "e", "w", " ", "b", "l", "u", "e", " ", "b", "t", "n", " ", "2", "1">>,
          <<"a", "b", "-", "-", "-", "-">>}

\* get_smart_label(name) for the name of a variant on display
GetSmartLabel(k) ==
    /\ op' = [name |-> "get_smart_label", variant |-> k]
    /\ result' = [status |-> "ok", label |-> get_smart_label(variants[k].name)]
    /\ locals' = NoCall
    /\ UNCHANGED <<variants, rng>>

InitLabel ==
    /\ variants \in {<<[name |-> name, n |-> 0, x |-> 0]>> : name \in NameStrings}
    /\ rng = 0
    /\ op = [name |-> "none"]
    /\ result = NoCall
    /\ locals = NoCall

NextLabel == \E k \in 1..Len(variants) : GetSmartLabel(k)

SpecLabel == InitLabel /\ [][NextLabel]_vars

\* The list functions on variant lists of every length
Init ==
    /\ variants \in VariantLists
    /\ rng \in 0..(RngPeriod - 1)
    /\ op = [name |-> "none"]
    /\ result = NoCall
    /\ locals = NoCall

Next ==
    \/ EvaluateOmnibus
    \/ EvaluateAllPairs

Spec == Init /\ [][Next]_vars

-----------------------------------------------------------------------------
(* What the claims speak of *)

PairCalled == op.name = "calculate_single_comparison"

AbTestCalled == op.name = "calculate_ab_test"

OmnibusCalled == op.name = "calculate_chi_square_test"

AllPairsCalled == op.name = "calculate_all_pairwise_comparisons"

\* The two variants of the pair call made last: side a and side b
A == variants[op.a]

B == variants[op.b]

\* The position (from 1) of the pair (i, j), 0 <= i < j < N, when the pairs are
\* listed in ascending lexicographic order
PairIndex(i, j, N) == i * N - ((i * (i + 1)) \div 2) + (j - i)

-----------------------------------------------------------------------------
\* C1: calculate_all_pairwise_comparisons never raises and returns exactly
\* N*(N-1)/2 results for a list of N variants: the result at the lexicographic
\* position of (i, j), i < j, compares variants i and j, so that the pairs come
\* in the order (0,1), (0,2), ..., (1,2), ... and the result is the empty list
\* for N < 2.
C1_AllPairsEnumeration ==
    AllPairsCalled =>
        /\ result.status = "ok"
        /\ Len(result.all_comparisons) = (Len(variants) * (Len(variants) - 1)) \div 2
        /\ \A i, j \in 0..(Len(variants) - 1) :
               i < j =>
                   LET c == result.all_comparisons[PairIndex(i, j, Len(variants))]
                   IN  /\ c.variant_a_name = variants[i + 1].name
                       /\ c.variant_b_name = variants[j + 1].name
        /\ (Len(variants) < 2 => result.all_comparisons = <<>>)

C1_Witness ==
    /\ AllPairsCalled
    /\ Len(variants) = 3
    /\ result.status = "ok"
    /\ Len(result.all_comparisons) = 3

\* C2: in the list calculate_all_pairwise_comparisons returns, the result of
\* the pair (i, j) is tagged is_control_comparison exactly when i = 0: the first
\* N-1 results are tagged and no later one is.
C2_ControlTag ==
    (AllPairsCalled /\ result.status = "ok") =>
        /\ \A i, j \in 0..(Len(variants) - 1) :
               (i < j /\ PairIndex(i, j, Len(variants)) <= Len(result.all_comparisons)) =>
                   (result.all_comparisons[PairIndex(i, j, Len(variants))].is_control_comparison
                        <=> (i = 0))
        /\ \A k \in 1..Len(result.all_comparisons) :
               result.all_comparisons[k].is_control_comparison <=> (k <= Len(variants) - 1)

C2_Witness ==
    /\ AllPairsCalled
    /\ Len(variants) = 3
    /\ result.status = "ok"
    /\ Len(result.all_comparisons) = 3
    /\ result.all_comparisons[2].is_control_comparison
    /\ ~result.all_comparisons[3].is_control_comparison

-----------------------------------------------------------------------------
\* C3: the p-value is symmetric: the call on (b, a) yields the p_value and the
\* significance flag of the call on (a, b), and a z-score of the same magnitude
\* and the opposite sign (both 0 when se is not positive); this holds of
\* calculate_single_comparison and of calculate_ab_test.
C3_PValueSymmetry ==
    /\ PairCalled =>
           LET swapped == calculate_single_comparison(B, A, FALSE, rng)
           IN  /\ result.status = "ok"
               /\ swapped.status = "ok"
               /\ swapped.dict.p_value = result.dict.p_value
               /\ swapped.dict.significant = result.dict.significant
               /\ swapped.locals.z_score.sq = locals.z_score.sq
               /\ swapped.locals.z_score.sign = -locals.z_score.sign
               /\ (locals.se.sq[1] = 0 =>
                       locals.z_score.sign = 0 /\ swapped.locals.z_score.sign = 0)
    /\ AbTestCalled =>
           LET swapped == calculate_ab_test(B.n, B.x, A.n, A.x, rng)
           IN  /\ result.status = "ok"
               /\ swapped.status = "ok"
               /\ swapped.dict.p_value = result.dict.p_value
               /\ swapped.dict.z_score.sq = result.dict.z_score.sq
               /\ swapped.dict.z_score.sign = -result.dict.z_score.sign
               /\ (result.dict.se.sq[1] = 0 =>
                       result.dict.z_score.sign = 0 /\ swapped.dict.z_score.sign = 0)

C3_Witness ==
    /\ PairCalled
    /\ result.status = "ok"
    /\ A.n # B.n
    /\ locals.z_score.sign = 1
    /\ result.dict.significant
    /\ calculate_single_comparison(B, A, FALSE, rng).locals.z_score.sign = -1

\* C4 as the claim states it: the relative lift of the call on (b, a) is the
\* negative of the relative lift of the call on (a, b).
C4_LiftNegated ==
    /\ (PairCalled /\ result.status = "ok") =>
           single_comparison_locals(B, A).relative_lift = Neg(locals.relative_lift)
    /\ (AbTestCalled /\ result.status = "ok") =>
           calculate_ab_test(B.n, B.x, A.n, A.x, rng).dict.relative_lift
               = Neg(result.dict.relative_lift)

\* The lift of (b, a) against the lift of (a, b), for proportions p_a and p_b
LiftsOfSwap(lift_ab, lift_ba, p_a, p_b) ==
    /\ (p_a[1] > 0 /\ p_b[1] > 0) => Mul(lift_ba, p_b) = Neg(Mul(lift_ab, p_a))
    /\ (p_a[1] > 0 /\ p_b[1] > 0 /\ p_a # p_b) => Sign(lift_ba) = -Sign(lift_ab)
    /\ (p_a[1] > 0 /\ p_b[1] > 0 /\ lift_ba = Neg(lift_ab)) => p_a = p_b
    /\ (p_a[1] = 0 /\ p_b[1] > 0) => (lift_ab = Float(0) /\ lift_ba = Float(-100))
    /\ (p_a[1] > 0 /\ p_b[1] = 0) => (lift_ab = Float(-100) /\ lift_ba = Float(0))
    /\ (p_a[1] = 0 /\ p_b[1] = 0) => (lift_ab = Float(0) /\ lift_ba = Float(0))

\* C4, amended: when both proportions are positive the two lifts have opposite
\* signs and p_b * lift(b, a) = -(p_a * lift(a, b)), so that they are negatives
\* of each other only when p_a = p_b; when exactly one proportion is 0 the lift
\* from the zero baseline is 0 and the other one is -100; when both are 0 both
\* lifts are 0.
C4_LiftOfSwap ==
    /\ PairCalled =>
           /\ result.status = "ok"
           /\ LiftsOfSwap(result.dict.relative_lift,
                          single_comparison_locals(B, A).relative_lift,
                          result.dict.variant_a_p, result.dict.variant_b_p)
    /\ AbTestCalled =>
           /\ result.status = "ok"
           /\ LiftsOfSwap(result.dict.relative_lift,
                          calculate_ab_test(B.n, B.x, A.n, A.x, rng).dict.relative_lift,
                          result.dict.control_p, result.dict.treatment_p)

C4_Witness ==
    /\ PairCalled
    /\ result.status = "ok"
    /\ result.dict.variant_a_p = <<1, 2>>
    /\ result.dict.variant_b_p = <<1, 1>>
    /\ result.dict.relative_lift = Float(100)
    /\ single_comparison_locals(B, A).relative_lift = Float(-50)

\* C5: when a.n = 0 or b.n = 0 the pair test raises no ZeroDivisionError,
\* reports the proportion 0 for each side whose n is 0, and ends with se = 0,
\* z = 0, p_value = 1.0 and significant = false.
C5_ZeroTrialSafety ==
    /\ (PairCalled /\ (A.n = 0 \/ B.n = 0)) =>
           /\ result.status = "ok"
           /\ (A.n = 0 => result.dict.variant_a_p = Float(0))
           /\ (B.n = 0 => result.dict.variant_b_p = Float(0))
           /\ locals.se.sq = Float(0) /\ ~locals.se.nan
           /\ locals.z_score.sign = 0 /\ locals.z_score.sq = Float(0)
           /\ locals.z_score.kind = "finite"
           /\ result.dict.p_value = Float(1)
           /\ result.dict.significant = FALSE
    /\ (AbTestCalled /\ (A.n = 0 \/ B.n = 0)) =>
           /\ result.status = "ok"
           /\ (A.n = 0 => result.dict.control_p = Float(0))
           /\ (B.n = 0 => result.dict.treatment_p = Float(0))
           /\ result.dict.se.sq = Float(0) /\ ~result.dict.se.nan
           /\ result.dict.z_score.sign = 0 /\ result.dict.z_score.sq = Float(0)
           /\ result.dict.z_score.kind = "finite"
           /\ result.dict.p_value = Float(1)

C5_Witness ==
    /\ PairCalled
    /\ A.n = 0
    /\ B.n = 2 /\ B.x = 1
    /\ result.status = "ok"
    /\ result.dict.variant_b_p = <<1, 2>>
    /\ result.dict.p_value = Float(1)

\* C6 as the claim states it: calculate_chi_square_test returns a result and
\* never raises, for every list of variants with 0 <= x <= n, a list with a
\* zero-trial variant included.
C6_OmnibusNeverRaises ==
    OmnibusCalled => result.status = "ok"

\* The clamped row of conversions and the clamped row of non-conversions, summed
ClampedX(v) == Min(Max(0, v.x), Max(0, v.n))

SuccessRowSum == SumSeq([k \in 1..Len(variants) |-> ClampedX(variants[k])])

FailureRowSum ==
    SumSeq([k \in 1..Len(variants) |-> Max(0, Max(0, variants[k].n) - ClampedX(variants[k]))])

\* C7: whenever the clamped row of conversions or the clamped row of
\* non-conversions sums to 0, calculate_chi_square_test returns exactly
\* chi2 = 0, p_value = 1.0, dof = 0, significant = false, and the chi-square
\* test is not run.
C7_DegenerateTable ==
    (OmnibusCalled /\ (SuccessRowSum = 0 \/ FailureRowSum = 0)) =>
        /\ result.status = "ok"
        /\ result.chi2 = Float(0)
        /\ result.p_value = Float(1)
        /\ result.dof = 0
        /\ result.significant = FALSE
        /\ result.tested = FALSE

C7_Witness ==
    /\ OmnibusCalled
    /\ Len(variants) = 2
    /\ SuccessRowSum > 0
    /\ FailureRowSum = 0
    /\ result.status = "ok"
    /\ result.tested = FALSE
    /\ result.p_value = Float(1)

\* p < 0.05 for a p-value num/den with den > 0
BelowAlpha(p) == p[1] * 20 < p[2]

\* C8: in every dict of a pair comparison, and in the result of the omnibus
\* test whenever the chi-square test ran, significant is true if and only if
\* p_value < 0.05; a p_value of exactly 0.05 or of 1.0 is not flagged.
C8_StrictThreshold ==
    /\ (AllPairsCalled /\ result.status = "ok") =>
           \A k \in 1..Len(result.all_comparisons) :
               LET c == result.all_comparisons[k]
               IN  /\ c.significant <=> BelowAlpha(c.p_value)
                   /\ c.p_value \in {<<1, 20>>, <<1, 1>>} => ~c.significant
    /\ (OmnibusCalled /\ result.status = "ok" /\ result.tested) =>
           /\ result.significant <=> BelowAlpha(result.p_value)
           /\ result.p_value \in {<<1, 20>>, <<1, 1>>} => ~result.significant

C8_Witness ==
    /\ AllPairsCalled
    /\ result.status = "ok"
    /\ \E k \in 1..Len(result.all_comparisons) :
           /\ result.all_comparisons[k].p_value = <<1, 20>>
           /\ ~result.all_comparisons[k].significant
    /\ \E k \in 1..Len(result.all_comparisons) :
           /\ BelowAlpha(result.all_comparisons[k].p_value)
           /\ result.all_comparisons[k].significant

\* The radicand of the pooled standard error, p(1-p)(1/a.n + 1/b.n) with
\* p = (a.x + b.x) / (a.n + b.n), in closed form
PooledRadicand(a, b) ==
    Norm((a.x + b.x) * (a.n + b.n - a.x - b.x), (a.n + b.n) * a.n * b.n)

\* The radicand of the unpooled standard error in closed form
UnpooledRadicand(a, b) ==
    Norm(a.x * (a.n - a.x) * b.n * b.n * b.n + b.x * (b.n - b.x) * a.n * a.n * a.n,
         a.n * a.n * a.n * b.n * b.n * b.n)

\* The case of C9 a pair falls in
PooledCase(a, b) ==
    a.n > 0 /\ b.n > 0 /\ 0 < a.x + b.x /\ a.x + b.x < a.n + b.n

SeSelected(s, a, b) ==
    /\ ~IsRaised(s.sq)
    /\ s.formula = "pooled" <=> PooledCase(a, b)
    /\ PooledCase(a, b) => s.sq = PooledRadicand(a, b)
    /\ s.formula = "unpooled" <=> (~PooledCase(a, b) /\ a.n > 0 /\ b.n > 0)
    /\ (~PooledCase(a, b) /\ a.n > 0 /\ b.n > 0) => s.sq = UnpooledRadicand(a, b)
    /\ s.formula = "zero" <=> (a.n = 0 \/ b.n = 0)
    /\ (a.n = 0 \/ b.n = 0) => (s.sq = Float(0) /\ ~s.nan)

\* C9: se is the pooled standard error exactly when a.n > 0, b.n > 0 and
\* 0 < p_pool < 1; otherwise, when both n are positive, it is the unpooled
\* standard error; otherwise it is 0; no case divides by an n that is 0.
C9_SeSelection ==
    /\ PairCalled => (result.status = "ok" /\ SeSelected(locals.se, A, B))
    /\ AbTestCalled => (result.status = "ok" /\ SeSelected(result.dict.se, A, B))

C9_Witness ==
    /\ PairCalled
    /\ A.n = 2 /\ A.x = 1 /\ B.n = 1 /\ B.x = 1
    /\ locals.se.formula = "pooled"
    /\ locals.se.sq = <<1, 3>>

\* lift = ((p_b - p_a) / p_a) * 100 for the proportions of a and b, p_a > 0
LiftOf(lift, a, b) ==
    LET p_b == IF b.n > 0 THEN <<b.x, b.n>> ELSE <<0, 1>>
    IN  /\ lift[2] > 0
        /\ lift[1] * p_b[2] * a.x = 100 * (p_b[1] * a.n - a.x * p_b[2]) * lift[2]

\* C10: the relative lift is ((p_b - p_a) / p_a) * 100 whenever p_a > 0 and
\* exactly 0 whenever p_a = 0 (a.n = 0 or a.x = 0), whatever the counts of b;
\* no division by a zero baseline rate occurs.
C10_RelativeLift ==
    (PairCalled \/ AbTestCalled) =>
        /\ result.status = "ok"
        /\ (A.n > 0 /\ A.x > 0) => LiftOf(result.dict.relative_lift, A, B)
        /\ (A.n = 0 \/ A.x = 0) => result.dict.relative_lift = Float(0)

C10_Witness ==
    /\ PairCalled
    /\ A.n = 3 /\ A.x = 1 /\ B.n = 2 /\ B.x = 1
    /\ result.status = "ok"
    /\ result.dict.relative_lift = Float(50)

\* All variants of the list have the same (n, x)
IdenticalVariants ==
    /\ Len(variants) >= 2
    /\ \A k \in 1..Len(variants) :
           variants[k].n = variants[1].n /\ variants[k].x = variants[1].x

\* C11: for every list of two or more variants that all have the same (n, x),
\* calculate_chi_square_test returns significant = false, with the chi-square
\* statistic 0 and the p-value 1.0.
C11_IdenticalVariants ==
    (OmnibusCalled /\ IdenticalVariants) =>
        /\ result.status = "ok"
        /\ result.significant = FALSE
        /\ result.chi2 = Float(0)
        /\ result.p_value = Float(1)

C11_Witness ==
    /\ OmnibusCalled
    /\ IdenticalVariants
    /\ Len(variants) = 2
    /\ variants[1].n = 2 /\ variants[1].x = 1
    /\ result.status = "ok"
    /\ result.tested
    /\ result.dof = 1
    /\ ~result.significant

\* C12: for every variant, negative x, negative n and x > n included, the
\* success cell of the table is min(max(x, 0), n) for the clamped n = max(n, 0)
\* and the failure cell is n - x of the clamped values floored at 0: every cell
\* is >= 0, the two cells of a column sum to max(n, 0), and the default result
\* is never produced by the check for a negative cell.
C12_Clamping ==
    OmnibusCalled =>
        /\ Len(locals.contingency_table[1]) = Len(variants)
        /\ Len(locals.contingency_table[2]) = Len(variants)
        /\ \A k \in 1..Len(variants) :
               LET n == IF variants[k].n > 0 THEN variants[k].n ELSE 0
                   x == IF variants[k].x < 0 THEN 0
                        ELSE IF variants[k].x > n THEN n ELSE variants[k].x
               IN  /\ locals.contingency_table[1][k] = x
                   /\ locals.contingency_table[2][k] = n - x
                   /\ locals.contingency_table[1][k] >= 0
                   /\ locals.contingency_table[2][k] >= 0
                   /\ locals.contingency_table[1][k] + locals.contingency_table[2][k] = n
        /\ result.guard # "negative"

C12_Witness ==
    /\ OmnibusCalled
    /\ variants[1].n = 2 /\ variants[1].x = 3
    /\ variants[2].n = -1 /\ variants[2].x = -1
    /\ locals.contingency_table = <<(<<2, 0>>), (<<0, 0>>)>>
    /\ result.guard = "row_sum"

\* max(1, k) written out
AtLeastOne(k) == IF k > 1 THEN k ELSE 1

\* C13: in every pair evaluation, for all integer counts (x = 0, x = n, x > n
\* and negative counts included), the shape parameters passed to the Beta
\* sampler for each side are max(1, x + 1) and max(1, n - x + 1): they are
\* >= 1, and the sampler rejects none of them.
C13_BetaShapes ==
    (PairCalled \/ AbTestCalled) =>
        /\ result.status = "ok"
        /\ locals.shapes = <<AtLeastOne(A.x + 1), AtLeastOne(A.n - A.x + 1),
                             AtLeastOne(B.x + 1), AtLeastOne(B.n - B.x + 1)>>
        /\ \A k \in 1..4 : locals.shapes[k] >= 1

C13_Witness ==
    /\ PairCalled
    /\ A.n = 1 /\ A.x = 3
    /\ B.n = -1 /\ B.x = -1
    /\ result.status = "ok"
    /\ locals.shapes = <<4, 1, 1, 1>>

\* The number of positions at which the sample of b is strictly greater than
\* the sample of a (samples are fractions with positive denominators)
Wins(b_posterior, a_posterior) ==
    Cardinality({i \in 1..n_simulations :
                    b_posterior[i][1] * a_posterior[i][2] > a_posterior[i][1] * b_posterior[i][2]})

\* C14: P2BB is the fraction of the n_simulations index-paired posterior samples
\* in which the sample of b is strictly greater than the sample of a: it is
\* k / n_simulations for an integer 0 <= k <= n_simulations, ties do not count
\* for b, and both sides are sampled n_simulations times.
C14_P2bbFraction ==
    ((PairCalled \/ AbTestCalled) /\ result.status = "ok") =>
        /\ Len(locals.a_posterior) = n_simulations
        /\ Len(locals.b_posterior) = n_simulations
        /\ result.dict.p2bb[2] > 0
        /\ result.dict.p2bb[1] * n_simulations
               = Wins(locals.b_posterior, locals.a_posterior) * result.dict.p2bb[2]
        /\ 0 <= result.dict.p2bb[1] /\ result.dict.p2bb[1] <= result.dict.p2bb[2]

C14_Witness ==
    /\ PairCalled
    /\ result.status = "ok"
    /\ \E i \in 1..n_simulations : locals.a_posterior[i] = locals.b_posterior[i]
    /\ \E i \in 1..n_simulations : locals.a_posterior[i] # locals.b_posterior[i]
    /\ Wins(locals.b_posterior, locals.a_posterior) = 1
    /\ result.dict.p2bb = <<1, n_simulations>>

\* What the z-test of a pair call leaves: the observed proportions, the lift,
\* the z-score, the p-value and the significance flag
Frequentist(dict, l) ==
    <<dict.variant_a_p, dict.variant_b_p, dict.relative_lift, l.z_score,
      dict.p_value, dict.significant>>

\* C15: a call of calculate_single_comparison on (a, b), made after any
\* sequence of calls, returns the observed proportions, relative lift, z-score,
\* p_value and significance flag that the call on the same (a, b) returns from
\* every other state of the random generator; only p2bb may differ.
C15_FrequentistDeterminism ==
    PairCalled =>
        /\ result.status = "ok"
        /\ \A state \in 0..(RngPeriod - 1) :
               LET again == calculate_single_comparison(A, B, FALSE, state)
               IN  /\ again.status = "ok"
                   /\ Frequentist(again.dict, again.locals) = Frequentist(result.dict, locals)

C15_Witness ==
    /\ PairCalled
    /\ result.status = "ok"
    /\ result.dict.significant
    /\ \E state \in 0..(RngPeriod - 1) :
           LET again == calculate_single_comparison(A, B, FALSE, state)
           IN  /\ again.dict.p2bb # result.dict.p2bb
               /\ again.locals.b_posterior # locals.b_posterior
               /\ Frequentist(again.dict, again.locals) = Frequentist(result.dict, locals)

\* C16 as the claim states it: no engine operation writes state shared across
\* calls; the random source of a call is its own, so no call leaves the
\* generator that later calls draw from in another state than it found it.
C16_NoSharedState == [][rng' = rng]_vars

\* The proportion x / n of a variant once its counts are clamped into
\* 0 <= x <= n, as the omnibus test clamps them
ClampedN(v) == IF v.n > 0 THEN v.n ELSE 0

ClampedP(v) == IF ClampedN(v) > 0 THEN Norm(ClampedX(v), ClampedN(v)) ELSE Float(0)

\* C17 as the claim states it: a variant with x > n or a negative count is
\* treated by one policy in both operations; the omnibus test clamps the counts
\* into 0 <= x <= n and returns a result, so the pair test computes with the
\* clamped counts too.
C17_ConsistentPolicy ==
    /\ OmnibusCalled =>
           \A k \in 1..Len(variants) :
               /\ locals.contingency_table[1][k] = ClampedX(variants[k])
               /\ locals.contingency_table[2][k] = ClampedN(variants[k]) - ClampedX(variants[k])
    /\ PairCalled =>
           /\ result.status = "ok"
           /\ result.dict.variant_a_p = ClampedP(A)
           /\ result.dict.variant_b_p = ClampedP(B)

PrepareCalled == op.name = "prepare_variants_from_dataframe"

\* C18 as the claim states it: every variant dict produced by
\* prepare_variants_from_dataframe, in each of its modes and for every
\* dataframe of non-negative event counts, satisfies 0 <= x <= n.
C18_WellFormedCounts ==
    PrepareCalled =>
        \A k \in 1..Len(variants) : 0 <= variants[k].x /\ variants[k].x <= variants[k].n

\* The row at which a variant first appears in the dataframe
FirstRow(rows, variant) ==
    CHOOSE i \in 1..Len(rows) :
        /\ rows[i].Variant = variant
        /\ \A h \in 1..(i - 1) : rows[h].Variant # variant

\* C19 as the claim states it: in every mode the variant list has pairwise
\* distinct names, each the name of a variant of the dataframe, in the order in
\* which the variants first appear in it, so that variants[0] is the first
\* variant supplied among those listed.
C19_NamesAndOrder ==
    PrepareCalled =>
        /\ \A k \in 1..Len(variants) :
               \E i \in 1..Len(op.df.rows) : op.df.rows[i].Variant = variants[k].name
        /\ \A h, k \in 1..Len(variants) :
               h < k => /\ variants[h].name # variants[k].name
                        /\ FirstRow(op.df.rows, variants[h].name)
                               < FirstRow(op.df.rows, variants[k].name)

LabelCalled == op.name = "get_smart_label"

\* C20: for every variant name, names with hyphens, underscores, spaces,
\* digits or symbols only included, get_smart_label returns a string of at
\* most 4 characters.
C20_LabelLength ==
    LabelCalled => Len(result.label) <= 4

C20_Witness ==
    /\ LabelCalled
    /\ variants[op.variant].name = <<"T", "r", "e", "a", "t", "m", "e", "n", "t", "_", "1", "2">>
    /\ result.label = <<"T", "1", "2">>

\* The name get_smart_label was called on
LabelledName == variants[op.variant].name

\* C21: for every name of at most 4 characters, the empty name and names with
\* '-', '_' or spaces included, get_smart_label returns the name unchanged.
C21_ShortNames ==
    (LabelCalled /\ Len(LabelledName) <= 4) => result.label = LabelledName

C21_Witness ==
    /\ LabelCalled
    /\ LabelledName = <<"a", "-", "_", " ">>
    /\ result.label = <<"a", "-", "_", " ">>

HasHyphen(name) == \E i \in 1..Len(name) : name[i] = "-"

\* The segment after the last hyphen of a name that has one
LastSegment(name) ==
    LET last == CHOOSE i \in 1..Len(name) :
                    name[i] = "-" /\ \A h \in (i + 1)..Len(name) : name[h] # "-"
    IN  SubSeq(name, last + 1, Len(name))

\* s[:k]
First(s, k) == IF Len(s) <= k THEN s ELSE SubSeq(s, 1, k)

\* The positions at which a word of the name starts, hyphens, underscores and
\* spaces being what separates words
IsSeparator(c) == c \in {"-", "_", " "}

WordStarts(name) ==
    {i \in 1..Len(name) : ~IsSeparator(name[i]) /\ (i = 1 \/ IsSeparator(name[i - 1]))}

LettersOf(name) == SelectSeq(name, LAMBDA c : c \in Letters)

DigitsOf(name) == SelectSeq(name, LAMBDA c : c \in Digits)

\* The first character of each word that starts with a letter, in order
InitialLetters(name) ==
    LET starts == SelectSeq([i \in 1..Len(name) |-> i],
                            LAMBDA i : i \in WordStarts(name) /\ name[i] \in Letters)
    IN  [k \in 1..Len(starts) |-> name[starts[k]]]

\* The label of the word rule as the code applies it
WordRuleLabel(name) ==
    IF Cardinality(WordStarts(name)) = 1
        THEN First(First(LettersOf(name), 3) \o DigitsOf(name), 4)
    ELSE First(InitialLetters(name) \o DigitsOf(name), 4)

\* C22 as the claim states it: for every name longer than 4 characters that
\* contains '-', the label is the last hyphen-delimited segment truncated to
\* its first 4 characters, whatever that segment is.
C22_HyphenRuleAlways ==
    (LabelCalled /\ Len(LabelledName) > 4 /\ HasHyphen(LabelledName)) =>
        result.label = First(LastSegment(LabelledName), 4)

\* C22, amended: for every name longer than 4 characters that contains '-',
\* the label is the last hyphen-delimited segment truncated to its first 4
\* characters when that segment is not empty; when the name ends with '-' the
\* label is the one of the word rule, every hyphen separating words.
C22_HyphenRule ==
    (LabelCalled /\ Len(LabelledName) > 4 /\ HasHyphen(LabelledName)) =>
        /\ LastSegment(LabelledName) # <<>> =>
               result.label = First(LastSegment(LabelledName), 4)
        /\ LastSegment(LabelledName) = <<>> =>
               result.label = WordRuleLabel(LabelledName)

C22_Witness ==
    /\ LabelCalled
    /\ LabelledName = <<"V", "a", "r", "i", "a", "n", "t", "-", "T", "r", "e", "a", "t", "m", "e", "n", "t">>
    /\ result.label = <<"T", "r", "e", "a">>

\* The first letter of each word that has one, in order, wherever the letter
\* stands in its word
FirstLetters(name) ==
    LET first == SelectSeq([j \in 1..Len(name) |-> j],
                     LAMBDA j : /\ name[j] \in Letters
                                /\ \E i \in WordStarts(name) :
                                       /\ i <= j
                                       /\ \A h \in i..j : ~IsSeparator(name[h])
                                       /\ \A h \in i..(j - 1) : name[h] \notin Letters)
    IN  [k \in 1..Len(first) |-> name[first[k]]]

-----------------------------------------------------------------------------
\* C25: in the list returned by calculate_all_pairwise_comparisons the entry of
\* the pair (i, j), i < j, names variants[i] as side a and variants[j] as side
\* b, and its proportions, relative lift, p-value and significance flag are
\* those of calculate_single_comparison(variants[i], variants[j]) called alone,
\* whatever the state of the generator: they depend on these two variants only
FrequentistFields(d) ==
    <<d.variant_a_p, d.variant_b_p, d.relative_lift, d.p_value, d.significant>>

AloneFields(a, b, state) ==
    FrequentistFields(calculate_single_comparison(a, b, FALSE, state).dict)

C25_Delegation ==
    (AllPairsCalled /\ result.status = "ok") =>
        \A i \in 0..(Len(variants) - 1) : \A j \in (i + 1)..(Len(variants) - 1) :
            /\ result.all_comparisons[PairIndex(i, j, Len(variants))].variant_a_name
                   = variants[i + 1].name
            /\ result.all_comparisons[PairIndex(i, j, Len(variants))].variant_b_name
                   = variants[j + 1].name
            /\ \A state \in 0..(RngPeriod - 1) :
                   FrequentistFields(result.all_comparisons[PairIndex(i, j, Len(variants))])
                       = AloneFields(variants[i + 1], variants[j + 1], state)

\* three variants whose last pair (1, 2) has a lift that tells the two
\* orientations apart
C25_Witness ==
    /\ AllPairsCalled /\ result.status = "ok"
    /\ Len(variants) = 3
    /\ Len(result.all_comparisons) = 3
    /\ result.all_comparisons[3].variant_a_name = variants[2].name
    /\ Less(<<0, 1>>, result.all_comparisons[3].relative_lift)
    /\ Less(result.all_comparisons[3].variant_a_p, result.all_comparisons[3].variant_b_p)

-----------------------------------------------------------------------------
\* C26: calculate_ab_test(a.n, a.x, b.n, b.x) and
\* calculate_single_comparison(a, b) end the same way on all integer inputs,
\* and when they return, control_p = variant_a_p, treatment_p = variant_b_p and
\* the two relative_lift and the two p_value are equal
SameVerdict(ab, single) ==
    /\ ab.status = single.status
    /\ ab.status = "raised" => ab.error = single.error
    /\ ab.status = "ok" =>
           /\ ab.dict.control_p = single.dict.variant_a_p
           /\ ab.dict.treatment_p = single.dict.variant_b_p
           /\ ab.dict.relative_lift = single.dict.relative_lift
           /\ ab.dict.p_value = single.dict.p_value

C26_PairImplementationsAgree ==
    AbTestCalled =>
        \A state \in 0..(RngPeriod - 1) :
            SameVerdict(result, calculate_single_comparison(A, B, FALSE, state))

\* a pair with a positive lift and a p-value below 1, seen by calculate_ab_test
C26_Witness ==
    /\ AbTestCalled /\ result.status = "ok"
    /\ A.n > 0 /\ B.n > 0
    /\ Less(Float(0), result.dict.relative_lift)
    /\ Less(result.dict.p_value, Float(1))
    /\ Less(result.dict.control_p, result.dict.treatment_p)

-----------------------------------------------------------------------------
\* The pairs whose standard error has no positive value: a side without
\* trials, no conversion on either side, or only conversions on both sides
ZeroVarianceCase(a, b) ==
    \/ a.n = 0 \/ b.n = 0
    \/ (a.x = 0 /\ b.x = 0)
    \/ (a.x = a.n /\ b.x = b.n)

ZeroStatistic(z, p) == z = ZZero /\ p = Float(1)

\* se > 0 exactly in the pooled case, and the unpooled fallback is 0
SeCharacterised(s, a, b) ==
    /\ SePositive(s) <=> PooledCase(a, b)
    /\ s.formula # "pooled" => (~s.nan /\ s.sq = Float(0))
    /\ ~SePositive(s) <=> ZeroVarianceCase(a, b)

SameProportion(a, b) == a.n > 0 /\ b.n > 0 /\ a.x * b.n = b.x * a.n

\* C27 as stated: se > 0 if and only if a.n > 0, b.n > 0 and
\* 0 < a.x + b.x < a.n + b.n; the unpooled fallback evaluates to 0; and z = 0
\* with p_value = 1.0 in exactly the zero-variance cases
C27_ZeroVarianceOnly ==
    /\ PairCalled =>
           /\ result.status = "ok"
           /\ SeCharacterised(locals.se, A, B)
           /\ ZeroStatistic(locals.z_score, locals.p_value) <=> ZeroVarianceCase(A, B)
    /\ AbTestCalled =>
           /\ result.status = "ok"
           /\ SeCharacterised(result.dict.se, A, B)
           /\ ZeroStatistic(result.dict.z_score, result.dict.p_value)
                  <=> ZeroVarianceCase(A, B)

\* C27: se > 0 if and only if a.n > 0, b.n > 0 and 0 < a.x + b.x < a.n + b.n;
\* the unpooled fallback evaluates to 0; se = 0 exactly in the zero-variance
\* cases; and z = 0 with p_value = 1.0 exactly when se = 0 or the two
\* proportions are equal
C27_ZeroVariance ==
    /\ PairCalled =>
           /\ result.status = "ok"
           /\ SeCharacterised(locals.se, A, B)
           /\ ZeroStatistic(locals.z_score, locals.p_value)
                  <=> (ZeroVarianceCase(A, B) \/ SameProportion(A, B))
    /\ AbTestCalled =>
           /\ result.status = "ok"
           /\ SeCharacterised(result.dict.se, A, B)
           /\ ZeroStatistic(result.dict.z_score, result.dict.p_value)
                  <=> (ZeroVarianceCase(A, B) \/ SameProportion(A, B))

\* both sides convert every trial: the unpooled fallback is used and is 0
C27_Witness ==
    /\ PairCalled /\ result.status = "ok"
    /\ A.n = 2 /\ A.x = 2 /\ B.n = 3 /\ B.x = 3
    /\ locals.se.formula = "unpooled" /\ locals.se.sq = Float(0)
    /\ ZeroStatistic(locals.z_score, locals.p_value)

-----------------------------------------------------------------------------
MatrixCalled == op.name = "create_comparison_matrix"

\* the sign of p_b - p_a for the observed proportions of a and b (0 for n = 0)
RateDifference(a, b) == Sign(Sub(variant_p(b), variant_p(a)))

\* C28: whenever calculate_single_comparison flags a pair as significant,
\* relative_lift is non-zero and has the sign of p_b - p_a; hence a cell (i, j)
\* of create_comparison_matrix is -1 (loser) only when the rate of variants[j]
\* is strictly lower than that of variants[i], and 1 (winner) only when it is
\* strictly higher
C28_SignificantDirection ==
    /\ (PairCalled /\ result.status = "ok" /\ result.dict.significant) =>
           /\ Sign(result.dict.relative_lift) # 0
           /\ Sign(result.dict.relative_lift) = RateDifference(A, B)
    /\ (MatrixCalled /\ result.status = "ok") =>
           \A i, j \in 1..Len(variants) :
               /\ result.z_values[i][j] = Float(-1)
                      => RateDifference(variants[i], variants[j]) = -1
               /\ result.z_values[i][j] = Float(1)
                      => RateDifference(variants[i], variants[j]) = 1

-----------------------------------------------------------------------------
\* C29: for every non-empty variant name, names of more than 4 characters
\* that end with '-' or have no letter and no digit included, get_smart_label
\* returns a non-empty string
C29_LabelNonEmpty ==
    (LabelCalled /\ LabelledName # <<>>) => result.label # <<>>

-----------------------------------------------------------------------------
ByFunnelStageCalled == op.name = "prepare_variants_by_funnel_stage"

\* The stages of the dataframe whose variant list is not empty
StagesWithVariants(df) ==
    {stage \in Stages :
        /\ \E i \in 1..Len(df.rows) : df.rows[i].FunnelStage = stage
        /\ prepare_variants_from_dataframe(df, stage, None) # <<>>}

\* C30: for every dataframe with a 'Funnel Stage' column
\* prepare_variants_by_funnel_stage returns, without raising, a dict that maps
\* each funnel stage having at least one variant to the variant list of
\* prepare_variants_from_dataframe for that stage; without that column it
\* returns the empty dict
C30_ByFunnelStage ==
    ByFunnelStageCalled =>
        /\ result.status = "ok"
        /\ ~op.df.has_stage => result.dict = <<>>
        /\ op.df.has_stage =>
               /\ DOMAIN result.dict = StagesWithVariants(op.df)
               /\ \A stage \in StagesWithVariants(op.df) :
                      result.dict[stage]
                          = prepare_variants_from_dataframe(op.df, stage, None)

=============================================================================
